---- MODULE Spec2Model ----
(***************************************************************************)
(* pySim card programming logic (src/pySim/cards.py): the field encoders   *)
(* of Card, the three card families (SuperSim, MagicSim, FakeMagicSim),    *)
(* their autodetection, and their program / erase sequences against the    *)
(* card-command collaborator (scc).                                        *)
(*                                                                         *)
(* A hex string is a sequence of nibbles 0..15 ('f' is 15); a text string  *)
(* (the profile's name) is a sequence of byte values.  A file path is a    *)
(* sequence of file identifiers, each a string.                            *)
(***************************************************************************)
EXTENDS Integers, Sequences, FiniteSets, TLC

VARIABLES
    files,   \* the card: full path -> file geometry [kind, tlen, rec_len]
    sel,     \* the card: current selection [dir, ef]
    recs,    \* the card: <<full path, record number>> -> data written to it
    log,     \* collaborator calls issued by the operation in progress
    fam,     \* family of the card instance the operation runs on
    pc,      \* position of the operation in progress
    p,       \* the subscriber profile handed to the operation
    loc,     \* locals of the operation in progress
    out,     \* how the last operation ended: [kind, val]
    sweep,   \* registry sweep: [idx, status, selected]
    last     \* the last autodetect call: [fam, result, probes]

vars == <<files, sel, recs, log, fam, pc, p, loc, out, sweep, last>>

\* ------------------------------------------------------------------------
\* Bounds of the model

\* most provider slots a modelled card holds
MaxRecs == 2

\* ------------------------------------------------------------------------
\* pySim.utils (imported at cards.py:24)

\* c * n for a one-character string c; a count below 1 gives ''
Rep(c, n) ==
    IF n <= 0 THEN <<>> ELSE [i \in 1..n |-> c]

\* swaps each adjacent nibble pair; length-preserving
swap_nibbles(s) ==
    [i \in 1..Len(s) |->
        IF i % 2 = 1
        THEN (IF i + 1 <= Len(s) THEN s[i + 1] ELSE s[i])
        ELSE s[i - 1]]

\* right-pads with the filler nibble 'f' to n hex characters
rpad(s, n) ==
    s \o Rep(15, n - Len(s))

\* left-pads with '0' to n characters
lpad(s, n) ==
    Rep(0, n - Len(s)) \o s

\* two hex characters for each byte of a text string
b2h(bytes) ==
    [i \in 1..(2 * Len(bytes)) |->
        IF i % 2 = 1 THEN bytes[(i + 1) \div 2] \div 16
                     ELSE bytes[i \div 2] % 16]

\* ------------------------------------------------------------------------
\* Python string formatting used by cards.py

\* '%02x' % n
Hex2(n) ==
    IF n < 256 THEN <<n \div 16, n % 16>>
    ELSE <<n \div 256, (n \div 16) % 16, n % 16>>

\* '%d' % n, for n in 0..999
Dec(n) ==
    IF n < 10 THEN <<n>>
    ELSE IF n < 100 THEN <<n \div 10, n % 10>>
    ELSE <<n \div 100, (n \div 10) % 10, n % 10>>

\* ------------------------------------------------------------------------
\* class Card: the field encoders

_e_iccid(iccid) ==
    swap_nibbles(iccid)

_e_imsi(imsi) ==
    LET l  == (Len(imsi) + 1) \div 2
        oe == Len(imsi) % 2
    IN  Hex2(l) \o swap_nibbles(lpad(<<(oe * 8) + 1>> \o imsi, 16))

_e_plmn(mcc, mnc) ==
    swap_nibbles(lpad(Dec(mcc), 3) \o lpad(Dec(mnc), 3))

\* ------------------------------------------------------------------------
\* File paths and family descriptors

DirMagic == <<"3f00", "7f4d">>
PathPlmn == <<"3f00", "7f20", "6f30">>
PathFake == <<"3f00", "000c">>

\* record length of FakeMagicSim's 3f00/000c (0x5a)
FakeRecLen == 90

Families == {"SuperSim", "MagicSim", "FakeMagicSim"}
MagicFamilies == {"SuperSim", "MagicSim"}

\* keys of _MagicSimBase._files
FileKeys == {"name", "b_ef", "r_ef"}

\* mutant of _files: MagicSim's binary-EF length copied from SuperSim
_files_copied_length(kls) ==
    IF kls = "SuperSim"
    THEN [name |-> [id |-> "8f0c", len |-> 18, chk |-> TRUE],
          b_ef |-> [id |-> "8f0d", len |-> 74, chk |-> TRUE],
          r_ef |-> [id |-> "8f0e", len |-> 50, chk |-> TRUE]]
    ELSE [name |-> [id |-> "8f0c", len |-> 18, chk |-> TRUE],
          b_ef |-> [id |-> "8f0d", len |-> 74, chk |-> TRUE],
          r_ef |-> [id |-> "8f0e", len |-> 102, chk |-> FALSE]]

\* kls._files: key -> (file id, record length, length must match)
_files(kls) ==
    IF kls = "SuperSim"
    THEN [name |-> [id |-> "8f0c", len |-> 18, chk |-> TRUE],
          b_ef |-> [id |-> "8f0d", len |-> 74, chk |-> TRUE],
          r_ef |-> [id |-> "8f0e", len |-> 50, chk |-> TRUE]]
    ELSE [name |-> [id |-> "8f0c", len |-> 18, chk |-> TRUE],
          b_ef |-> [id |-> "8f0d", len |-> 130, chk |-> TRUE],
          r_ef |-> [id |-> "8f0e", len |-> 102, chk |-> FALSE]]

\* kls._ki_file as hex characters; <<>> stands for None
_ki_file(kls) ==
    IF kls = "MagicSim" THEN <<6, 15, 1, 11>> ELSE <<>>

\* the registry, in autodetection order
_cards_classes == <<"FakeMagicSim", "SuperSim", "MagicSim">>

MagicPath(id) == DirMagic \o <<id>>

RecordPaths == {MagicPath("8f0c"), MagicPath("8f0d"), MagicPath("8f0e"), PathFake}
AllPaths == RecordPaths \cup {DirMagic, PathPlmn}

\* a dict is iterated in an order the language does not fix
OrdersOf(keys) ==
    {o \in [1..Cardinality(keys) -> keys] :
        \A i, j \in 1..Cardinality(keys) : i # j => o[i] # o[j]}

Orders == OrdersOf(FileKeys)

\* ------------------------------------------------------------------------
\* The card behind the collaborator (scc)

Geom(kind, tlen, rec_len) == [kind |-> kind, tlen |-> tlen, rec_len |-> rec_len]

\* kinds of file on which every access faults: the file is absent, or the
\* transport to the card fails
FaultKinds == {"absent", "unreachable"}

\* scc.record_size(path): the record length; faults unless path is a
\* reachable record-oriented file
record_size(path) ==
    IF files[path].kind = "EF_record"
    THEN [raised |-> FALSE, val |-> files[path].rec_len]
    ELSE [raised |-> TRUE, val |-> 0]

\* ------------------------------------------------------------------------
\* autodetect

\* the body of _MagicSimBase.autodetect's try block, files visited in `order`
RECURSIVE MagicProbe(_, _, _, _)
MagicProbe(kls, order, i, probes) ==
    IF i > Len(order)
    THEN [result |-> "instance", probes |-> probes]
    ELSE LET f    == _files(kls)[order[i]]
             path == MagicPath(f.id)
             r    == record_size(path)
             seen == Append(probes, [path |-> path, raised |-> r.raised, val |-> r.val])
         IN  IF ~f.chk THEN MagicProbe(kls, order, i + 1, probes)
             ELSE IF r.raised THEN [result |-> "raised", probes |-> seen]
             ELSE IF r.val # f.len THEN [result |-> "none", probes |-> seen]
             ELSE MagicProbe(kls, order, i + 1, seen)

\* the body of FakeMagicSim.autodetect's try block
FakeProbe ==
    LET r    == record_size(PathFake)
        seen == <<[path |-> PathFake, raised |-> r.raised, val |-> r.val]>>
    IN  IF r.raised THEN [result |-> "raised", probes |-> seen]
        ELSE IF r.val # FakeRecLen THEN [result |-> "none", probes |-> seen]
        ELSE [result |-> "instance", probes |-> seen]

TryBody(kls, order) ==
    IF kls = "FakeMagicSim" THEN FakeProbe ELSE MagicProbe(kls, order, 1, <<>>)

\* mutant of autodetect: no except clause, a probe fault leaves the call
autodetect_without_except(kls, order) ==
    TryBody(kls, order)

\* kls.autodetect(scc): the bare except maps every fault to None
autodetect(kls, order) ==
    LET r == TryBody(kls, order)
    IN  IF r.result = "raised" THEN [r EXCEPT !.result = "none"] ELSE r

\* the caller's sweep over the registry: the next family is tried
SweepResult(r, kls) ==
    IF r.result = "instance"
    THEN [idx |-> sweep.idx, status |-> "matched", selected |-> kls]
    ELSE IF r.result = "raised"
    THEN [idx |-> sweep.idx, status |-> "aborted", selected |-> "none"]
    ELSE IF sweep.idx = Len(_cards_classes)
    THEN [idx |-> sweep.idx + 1, status |-> "unsupported", selected |-> "none"]
    ELSE [idx |-> sweep.idx + 1, status |-> "running", selected |-> "none"]

SweepStep ==
    /\ sweep.status = "running"
    /\ \E order \in Orders :
        LET kls == _cards_classes[sweep.idx]
            r   == autodetect(kls, order)
        IN  /\ sweep' = SweepResult(r, kls)
            /\ last' = [fam |-> kls, result |-> r.result, probes |-> r.probes]
    /\ UNCHANGED <<files, sel, recs, log, fam, pc, p, loc, out>>

\* a direct call of one family's autodetect classmethod
AutodetectCall ==
    /\ \E kls \in Families, order \in Orders :
        LET r == autodetect(kls, order)
        IN  last' = [fam |-> kls, result |-> r.result, probes |-> r.probes]
    /\ UNCHANGED <<files, sel, recs, log, fam, pc, p, loc, out, sweep>>

\* ------------------------------------------------------------------------
\* Initial values shared by the specifications

NoProfile ==
    [name |-> <<>>, iccid |-> <<>>, imsi |-> <<>>, ki |-> <<>>,
     mcc |-> 0, mnc |-> 0, smsp |-> <<>>]

NoLoc == [cnt |-> 0, rec_len |-> 0, n |-> 0, k |-> 1, order |-> <<>>, tl |-> 0, ret |-> "done"]

NoOut == [op |-> "none", kind |-> "none", val |-> 0, err |-> "", hex |-> <<>>]

RootSel == [dir |-> <<"3f00">>, ef |-> <<>>]

\* ------------------------------------------------------------------------
\* Specification of autodetection: any card, the sweep and direct calls

\* the record lengths the families declare for the file at `path`
DeclaredLens(path) ==
    IF path = PathFake THEN {FakeRecLen}
    ELSE {_files(x[1])[x[2]].len : x \in
            {y \in MagicFamilies \X FileKeys : MagicPath(_files(y[1])[y[2]].id) = path}}

\* what probing one record file of a card may give: a fault, a file that is
\* not record-oriented, a declared length or another length
ProbeGeoms(path) ==
    {Geom(k, 0, 0) : k \in FaultKinds \cup {"EF_transparent"}}
    \cup {Geom("EF_record", 2 * l, l) : l \in {17} \cup DeclaredLens(path)}

CardWith(gname, gbef, gref, gfake, gplmn) ==
    [path \in AllPaths |->
        IF path = DirMagic THEN Geom("DF", 0, 0)
        ELSE IF path = PathPlmn THEN gplmn
        ELSE IF path = PathFake THEN gfake
        ELSE IF path = MagicPath("8f0c") THEN gname
        ELSE IF path = MagicPath("8f0d") THEN gbef
        ELSE gref]

DetectCards ==
    {CardWith(g[1], g[2], g[3], g[4], Geom("EF_transparent", 24, 0)) : g \in
        ProbeGeoms(MagicPath("8f0c")) \X ProbeGeoms(MagicPath("8f0d"))
        \X ProbeGeoms(MagicPath("8f0e")) \X ProbeGeoms(PathFake)}

InitDetect ==
    /\ files \in DetectCards
    /\ sel = RootSel
    /\ recs = <<>>
    /\ log = <<>>
    /\ fam = "none"
    /\ pc = "idle"
    /\ p = NoProfile
    /\ loc = NoLoc
    /\ out = NoOut
    /\ sweep = [idx |-> 1, status |-> "running", selected |-> "none"]
    /\ last = [fam |-> "none", result |-> "none", probes |-> <<>>]

NextDetect ==
    \/ SweepStep
    \/ AutodetectCall

SpecDetect == InitDetect /\ [][NextDetect]_vars

\* ------------------------------------------------------------------------
\* Specification of the field encoders: the inputs are drawn in InitCodec
\* and each action applies one encoder

IccidDigits == <<8, 9, 3, 1, 0, 8, 0, 0, 0, 0, 0, 0, 0, 0, 0, 0, 0, 0, 0, 1>>

ImsiDigits == <<2, 6, 2, 4, 2, 1, 2, 3, 4, 5, 6, 7, 8, 9, 5>>

\* the key '000102..0f' as 32 hex characters
KiHex == [i \in 1..32 |-> IF i % 2 = 1 THEN 0 ELSE (i \div 2) - 1]

\* a name of n characters: 'Test' repeated
NameOf(n) == [i \in 1..n |-> <<84, 101, 115, 116>>[((i - 1) % 4) + 1]]

Profile(name, iccid, imsi, mcc, mnc, smsp) ==
    [name |-> name, iccid |-> iccid, imsi |-> imsi, ki |-> KiHex,
     mcc |-> mcc, mnc |-> mnc, smsp |-> smsp]

\* imsi of 1..15 digits, two digit patterns; iccid of 18..20 digits
CodecProfiles ==
    {Profile(<<>>, SubSeq(IccidDigits, 1, li), [i \in 1..lm |-> (ImsiDigits[i] + d) % 10],
             mcc, mnc, <<>>) :
        li \in 18..20, lm \in 1..15, d \in {0, 3}, mcc \in {1, 262}, mnc \in {1, 42, 410}}

InitCodec ==
    /\ files = CardWith(Geom("absent", 0, 0), Geom("absent", 0, 0), Geom("absent", 0, 0),
                        Geom("absent", 0, 0), Geom("absent", 0, 0))
    /\ sel = RootSel
    /\ recs = <<>>
    /\ log = <<>>
    /\ fam = "none"
    /\ pc = "idle"
    /\ p \in CodecProfiles
    /\ loc = NoLoc
    /\ out = NoOut
    /\ sweep = [idx |-> 1, status |-> "running", selected |-> "none"]
    /\ last = [fam |-> "none", result |-> "none", probes |-> <<>>]

Encoded(op, hex) == [NoOut EXCEPT !.op = op, !.kind = "return", !.hex = hex]

Call_e_iccid ==
    /\ out' = Encoded("_e_iccid", _e_iccid(p.iccid))
    /\ UNCHANGED <<files, sel, recs, log, fam, pc, p, loc, sweep, last>>

Call_e_imsi ==
    /\ out' = Encoded("_e_imsi", _e_imsi(p.imsi))
    /\ UNCHANGED <<files, sel, recs, log, fam, pc, p, loc, sweep, last>>

Call_e_plmn ==
    /\ out' = Encoded("_e_plmn", _e_plmn(p.mcc, p.mnc))
    /\ UNCHANGED <<files, sel, recs, log, fam, pc, p, loc, sweep, last>>

NextCodec ==
    \/ Call_e_iccid
    \/ Call_e_imsi
    \/ Call_e_plmn

SpecCodec == InitCodec /\ [][NextCodec]_vars

\* C4: for every imsi of 1..15 digits, encode_imsi(imsi) is exactly 9 bytes and
\* its first byte equals ceil((len + 1) / 2).
C4_ImsiLengthByteIsCeil ==
    out.op = "_e_imsi" =>
        /\ Len(out.hex) = 2 * 9
        /\ (16 * out.hex[1]) + out.hex[2] = (Len(p.imsi) + 2) \div 2

\* ------------------------------------------------------------------------
\* The collaborator's calls, as the operations issue them

Call(op, path, recno, data) ==
    [op |-> op, path |-> path, recno |-> recno, data |-> data, ok |-> TRUE]

\* a bare file id is looked up in the directory selected last
Resolve(path) ==
    IF Len(path) = 1 THEN sel.dir \o path ELSE path

Reachable(path) ==
    path \in DOMAIN files /\ files[path].kind \notin FaultKinds

DirOf(path) ==
    IF files[path].kind = "DF" THEN path ELSE SubSeq(path, 1, Len(path) - 1)

\* scc.select_file(path) succeeds: the file becomes the selection
DoSelect(path) ==
    /\ Reachable(path)
    /\ log' = Append(log, Call("select_file", path, 0, <<>>))
    /\ sel' = [dir |-> DirOf(path),
               ef |-> IF files[path].kind = "DF" THEN <<>> ELSE path]
    /\ UNCHANGED <<files, recs>>

\* scc.update_record(path, recno, data) succeeds: the record is overwritten
DoUpdateRecord(path, recno, data) ==
    /\ Reachable(Resolve(path))
    /\ files[Resolve(path)].kind = "EF_record"
    /\ log' = Append(log, Call("update_record", path, recno, data))
    /\ recs' = (<<Resolve(path), recno>> :> data) @@ recs
    /\ sel' = [dir |-> DirOf(Resolve(path)), ef |-> Resolve(path)]
    /\ UNCHANGED files

\* scc.update_binary(id, data) succeeds: the file is overwritten from offset 0
DoUpdateBinary(path, data) ==
    /\ Reachable(Resolve(path))
    /\ files[Resolve(path)].kind = "EF_transparent"
    /\ log' = Append(log, Call("update_binary", path, 0, data))
    /\ recs' = (<<Resolve(path), 0>> :> data) @@ recs
    /\ sel' = [dir |-> DirOf(Resolve(path)), ef |-> Resolve(path)]
    /\ UNCHANGED files

\* mutant of Raise: the exception is caught and the step is tried again
Raise_and_retry(err) ==
    /\ pc' = pc
    /\ out' = [out EXCEPT !.err = err]

\* an exception leaves the operation: nothing in it catches one
Raise(err) ==
    /\ pc' = "failed"
    /\ out' = [out EXCEPT !.kind = "raise", !.err = err]

\* the collaborator faults on a call: the call was issued, the card is as it was
Fault(call) ==
    /\ log' = Append(log, [call EXCEPT !.ok = FALSE])
    /\ Raise("fault")
    /\ UNCHANGED <<files, sel, recs, fam, p, loc, sweep, last>>

Return(val) ==
    /\ pc' = "done"
    /\ out' = [out EXCEPT !.kind = "return", !.val = val]

\* ------------------------------------------------------------------------
\* Record-count derivation

\* mutant of _get_count: the reserved record is counted as a provider slot
_get_count_with_header(kls, r) ==
    LET f       == _files(kls)["name"]
        rec_len == r.rec_len
        tlen    == r.tlen
        rec_cnt == tlen \div rec_len
    IN  IF (rec_cnt < 1) \/ (rec_len # f.len)
        THEN [raised |-> TRUE, cnt |-> 0, rec_len |-> 0]
        ELSE [raised |-> FALSE, cnt |-> rec_cnt, rec_len |-> rec_len]

\* _MagicSimBase._get_count after its select_file returned geometry r
_get_count(kls, r) ==
    LET f       == _files(kls)["name"]
        rec_len == r.rec_len
        tlen    == r.tlen
        rec_cnt == (tlen \div rec_len) - 1
    IN  IF (rec_cnt < 1) \/ (rec_len # f.len)
        THEN [raised |-> TRUE, cnt |-> 0, rec_len |-> 0]
        ELSE [raised |-> FALSE, cnt |-> rec_cnt, rec_len |-> rec_len]

\* FakeMagicSim._get_infos after its select_file returned geometry r
_get_infos(r) ==
    LET rec_len == r.rec_len
        tlen    == r.tlen
        rec_cnt == (tlen \div rec_len) - 1
    IN  IF (rec_cnt < 1) \/ (rec_len # FakeRecLen)
        THEN [raised |-> TRUE, cnt |-> 0, rec_len |-> 0]
        ELSE [raised |-> FALSE, cnt |-> rec_cnt, rec_len |-> rec_len]

CountPath(kls) ==
    IF kls = "FakeMagicSim" THEN PathFake ELSE MagicPath(_files(kls)["name"].id)

Counted(kls, r) ==
    IF kls = "FakeMagicSim" THEN _get_infos(r) ELSE _get_count(kls, r)

\* _get_count / _get_infos, called on its own or from program / erase
\* (loc.ret is where the caller goes on)
GetCount ==
    /\ pc = "get_count"
    /\ \/ /\ DoSelect(CountPath(fam))
          /\ LET c == Counted(fam, files[CountPath(fam)])
             IN  IF c.raised
                 THEN Raise("Bad card type") /\ UNCHANGED loc
                 ELSE /\ loc' = [loc EXCEPT !.cnt = c.cnt, !.rec_len = c.rec_len]
                      /\ IF loc.ret = "done"
                         THEN Return(c.cnt)
                         ELSE pc' = loc.ret /\ UNCHANGED out
          /\ UNCHANGED <<fam, p, sweep, last>>
       \/ Fault(Call("select_file", CountPath(fam), 0, <<>>))

StartGetCount ==
    /\ pc = "idle"
    /\ pc' = "get_count"
    /\ loc' = [NoLoc EXCEPT !.ret = "done"]
    /\ out' = [NoOut EXCEPT !.op = "get_count"]
    /\ UNCHANGED <<files, sel, recs, log, fam, p, sweep, last>>

\* ------------------------------------------------------------------------
\* _MagicSimBase.program

\* the operator-name record: name padded with 0xff, its length, 01 = valid
NameRecord(prof) ==
    rpad(b2h(prof.name), 32) \o Hex2(Len(prof.name)) \o <<0, 1>>

\* the value v built for the binary-EF record
BefValue(kls, prof) ==
    (IF _ki_file(kls) = <<>> THEN prof.ki ELSE <<>>)
    \o <<3, 15, 0, 0>> \o <<2, 15, 14, 2>> \o <<0, 10>> \o _e_iccid(prof.iccid)
    \o <<7, 15, 2, 0>> \o <<6, 15, 0, 7>> \o <<0, 9>> \o _e_imsi(prof.imsi)
    \o (IF _ki_file(kls) # <<>> THEN _ki_file(kls) \o <<1, 0>> \o prof.ki ELSE <<>>)
    \o <<6, 15, 3, 0>> \o <<1, 8>> \o rpad(_e_plmn(prof.mcc, prof.mnc), 36)

\* mutant of BefRecord: the value is written without padding
BefRecord_unpadded(kls, prof) ==
    BefValue(kls, prof)

BefRecord(kls, prof) ==
    rpad(BefValue(kls, prof), _files(kls)["b_ef"].len * 2)

\* hplmn + 'ff' * (tl - 3)
PlmnBlob(prof, tl) ==
    _e_plmn(prof.mcc, prof.mnc) \o Rep(15, 2 * (tl - 3))

\* self._scc.select_file(['3f00', '7f4d'])
MagicProgramSelectDir ==
    /\ pc = "m_prog_dir"
    /\ \/ /\ DoSelect(DirMagic)
          /\ pc' = "m_prog_name"
          /\ UNCHANGED <<fam, p, loc, out, sweep, last>>
       \/ Fault(Call("select_file", DirMagic, 0, <<>>))

\* self._scc.update_record(self._files['name'][0], 2, ...)
MagicProgramName ==
    /\ pc = "m_prog_name"
    /\ LET id == <<_files(fam)["name"].id>>
       IN  \/ /\ DoUpdateRecord(id, 2, NameRecord(p))
              /\ pc' = "m_prog_bef"
              /\ UNCHANGED <<fam, p, loc, out, sweep, last>>
           \/ Fault(Call("update_record", id, 2, NameRecord(p)))

\* self._scc.update_record(self._files['b_ef'][0], 1, rpad(v, ...))
MagicProgramBef ==
    /\ pc = "m_prog_bef"
    /\ LET id == <<_files(fam)["b_ef"].id>>
       IN  \/ /\ DoUpdateRecord(id, 1, BefRecord(fam, p))
              /\ pc' = "m_prog_plmn_sel"
              /\ UNCHANGED <<fam, p, loc, out, sweep, last>>
           \/ Fault(Call("update_record", id, 1, BefRecord(fam, p)))

\* r = self._scc.select_file(['3f00', '7f20', '6f30']); tl = total size
MagicProgramSelectPlmn ==
    /\ pc = "m_prog_plmn_sel"
    /\ \/ /\ DoSelect(PathPlmn)
          /\ loc' = [loc EXCEPT !.tl = files[PathPlmn].tlen]
          /\ pc' = "m_prog_plmn"
          /\ UNCHANGED <<fam, p, out, sweep, last>>
       \/ Fault(Call("select_file", PathPlmn, 0, <<>>))

\* self._scc.update_binary('6f30', hplmn + 'ff' * (tl-3))
MagicProgramPlmn ==
    /\ pc = "m_prog_plmn"
    /\ \/ /\ DoUpdateBinary(<<"6f30">>, PlmnBlob(p, loc.tl))
          /\ Return(0)
          /\ UNCHANGED <<fam, p, loc, sweep, last>>
       \/ Fault(Call("update_binary", <<"6f30">>, 0, PlmnBlob(p, loc.tl)))

\* ------------------------------------------------------------------------
\* FakeMagicSim.program

\* the 90-byte entry written to record 1 of 000c
Entry(prof) ==
    <<8, 1>>
    \o rpad(b2h(SubSeq(prof.name, 1, IF Len(prof.name) < 14 THEN Len(prof.name) ELSE 14)), 28)
    \o _e_iccid(prof.iccid)
    \o _e_imsi(prof.imsi)
    \o prof.ki
    \o Rep(15, 24) \o <<15, 13>> \o Rep(15, 24)
    \o rpad(prof.smsp, 20)
    \o Rep(15, 10)

\* r = self._scc.select_file(['3f00', '7f20', '6f30']); tl = total size
FakeProgramSelectPlmn ==
    /\ pc = "f_prog_plmn_sel"
    /\ \/ /\ DoSelect(PathPlmn)
          /\ loc' = [loc EXCEPT !.tl = files[PathPlmn].tlen]
          /\ pc' = "f_prog_plmn"
          /\ UNCHANGED <<fam, p, out, sweep, last>>
       \/ Fault(Call("select_file", PathPlmn, 0, <<>>))

\* self._scc.update_binary('6f30', ...); then _get_infos is called
FakeProgramPlmn ==
    /\ pc = "f_prog_plmn"
    /\ \/ /\ DoUpdateBinary(<<"6f30">>, PlmnBlob(p, loc.tl))
          /\ pc' = "get_count"
          /\ loc' = [loc EXCEPT !.ret = "f_prog_entry"]
          /\ UNCHANGED <<fam, p, out, sweep, last>>
       \/ Fault(Call("update_binary", <<"6f30">>, 0, PlmnBlob(p, loc.tl)))

\* self._scc.update_record('000c', 1, entry)
FakeProgramEntry ==
    /\ pc = "f_prog_entry"
    /\ \/ /\ DoUpdateRecord(<<"000c">>, 1, Entry(p))
          /\ Return(0)
          /\ UNCHANGED <<fam, p, loc, sweep, last>>
       \/ Fault(Call("update_record", <<"000c">>, 1, Entry(p)))

\* ------------------------------------------------------------------------
\* erase

\* mutant of EraseKeys: only the 'length must match' files are erased
EraseKeys_checked_only(kls) ==
    {k \in DOMAIN _files(kls) : _files(kls)[k].chk}

\* the files _MagicSimBase.erase puts in its dict df: all of self._files
EraseKeys(kls) ==
    DOMAIN _files(kls)

\* mutant of EraseDf: the name file is erased from record 1 like the others
EraseDf_no_name_offset(kls, key) ==
    LET v  == _files(kls)[key]
        fv == Rep(15, 2 * v.len)
    IN  IF key = "name"
        THEN [id |-> v.id, msg |-> SubSeq(fv, 1, Len(fv) - 4) \o <<0, 0, 0, 0>>, ofs |-> 1]
        ELSE [id |-> v.id, msg |-> fv, ofs |-> 1]

\* the dict df of _MagicSimBase.erase: file key -> (file id, fill, offset)
EraseDf(kls, key) ==
    LET v  == _files(kls)[key]
        fv == Rep(15, 2 * v.len)
    IN  IF key = "name"
        THEN [id |-> v.id, msg |-> SubSeq(fv, 1, Len(fv) - 4) \o <<0, 0, 0, 0>>, ofs |-> 2]
        ELSE [id |-> v.id, msg |-> fv, ofs |-> 1]

\* one update_record of _MagicSimBase.erase's nested loops
MagicEraseWrite ==
    /\ pc = "m_erase_loop"
    /\ LET d    == EraseDf(fam, loc.order[loc.k])
           path == MagicPath(d.id)
           more == loc.k < Len(loc.order) \/ loc.n + 1 < loc.cnt
       IN  \/ /\ DoUpdateRecord(path, loc.n + d.ofs, d.msg)
              /\ loc' = IF loc.k < Len(loc.order)
                        THEN [loc EXCEPT !.k = loc.k + 1]
                        ELSE [loc EXCEPT !.k = 1, !.n = loc.n + 1]
              /\ IF more THEN pc' = pc /\ UNCHANGED out ELSE Return(0)
              /\ UNCHANGED <<fam, p, sweep, last>>
           \/ Fault(Call("update_record", path, loc.n + d.ofs, d.msg))

\* one update_record of FakeMagicSim.erase's loop
FakeEraseWrite ==
    /\ pc = "f_erase_loop"
    /\ LET entry == Rep(15, 2 * loc.rec_len)
       IN  \/ /\ DoUpdateRecord(<<"000c">>, 1 + loc.n, entry)
              /\ loc' = [loc EXCEPT !.n = loc.n + 1]
              /\ IF loc.n + 1 < loc.cnt THEN pc' = pc /\ UNCHANGED out ELSE Return(0)
              /\ UNCHANGED <<fam, p, sweep, last>>
           \/ Fault(Call("update_record", <<"000c">>, 1 + loc.n, entry))

\* ------------------------------------------------------------------------
\* Specification of program / erase / record count on one card instance

\* profiles handed to program: names of 0, 4, 14 and 17 characters, iccid
\* of 19 and 20 digits, imsi of 1, 14 and 15 digits, smsp of 0 and 10 bytes
Profiles ==
    {Profile(NameOf(ln), SubSeq(IccidDigits, 1, li), SubSeq(ImsiDigits, 1, lm),
             262, mnc, Rep(1, ls)) :
        ln \in {0, 4, 14, 17}, li \in {19, 20}, lm \in {1, 14, 15},
        mnc \in {1, 42}, ls \in {0, 20}}

\* geometry of the file the record count is derived from: the declared
\* record length d or 17, 1..MaxRecs+1 whole records, with or without a
\* partial record of 5 more bytes
CountGeoms(d) ==
    {Geom("EF_record", (l * k) + r, l) :
        l \in {17, d}, k \in 1..(MaxRecs + 1), r \in {0, 5}}

\* the cards an instance of family kls is run on
OpCards(kls) ==
    LET whole(l) == Geom("EF_record", l * (MaxRecs + 1), l)
        bef      == whole(_files(IF kls = "MagicSim" THEN kls ELSE "SuperSim")["b_ef"].len)
        ref      == whole(_files(IF kls = "MagicSim" THEN kls ELSE "SuperSim")["r_ef"].len)
    IN  IF kls = "FakeMagicSim"
        THEN {CardWith(whole(18), bef, ref, g, Geom("EF_transparent", tl, 0)) :
                g \in CountGeoms(FakeRecLen), tl \in {3, 24}}
        ELSE {CardWith(g, bef, ref, whole(FakeRecLen), Geom("EF_transparent", tl, 0)) :
                g \in CountGeoms(_files(kls)["name"].len), tl \in {3, 24}}

Init ==
    /\ fam \in Families
    /\ files \in OpCards(fam)
    /\ sel = RootSel
    /\ recs = <<>>
    /\ log = <<>>
    /\ pc = "idle"
    /\ p = NoProfile
    /\ loc = NoLoc
    /\ out = NoOut
    /\ sweep = [idx |-> 1, status |-> "running", selected |-> "none"]
    /\ last = [fam |-> "none", result |-> "none", probes |-> <<>>]

\* card.program(p) is called
StartProgram ==
    /\ pc = "idle"
    /\ p' \in Profiles
    /\ pc' = IF fam = "FakeMagicSim" THEN "f_prog_plmn_sel" ELSE "m_prog_dir"
    /\ loc' = NoLoc
    /\ out' = [NoOut EXCEPT !.op = "program"]
    /\ UNCHANGED <<files, sel, recs, log, fam, sweep, last>>

\* card.erase() is called; the count is derived first
StartErase ==
    /\ pc = "idle"
    /\ pc' = "get_count"
    /\ \E order \in OrdersOf(IF fam = "FakeMagicSim" THEN {"entry"} ELSE EraseKeys(fam)) :
        loc' = [NoLoc EXCEPT !.order = order,
                             !.ret = IF fam = "FakeMagicSim" THEN "f_erase_loop"
                                     ELSE "m_erase_loop"]
    /\ out' = [NoOut EXCEPT !.op = "erase"]
    /\ UNCHANGED <<files, sel, recs, log, fam, p, sweep, last>>

Next ==
    \/ StartGetCount
    \/ StartProgram
    \/ StartErase
    \/ GetCount
    \/ MagicProgramSelectDir
    \/ MagicProgramName
    \/ MagicProgramBef
    \/ MagicProgramSelectPlmn
    \/ MagicProgramPlmn
    \/ FakeProgramSelectPlmn
    \/ FakeProgramPlmn
    \/ FakeProgramEntry
    \/ MagicEraseWrite
    \/ FakeEraseWrite

Spec == Init /\ [][Next]_vars

\* ------------------------------------------------------------------------
\* Vocabulary of the properties

IsWrite(c) == c.op \in {"update_record", "update_binary"}

Writes(l) == SelectSeq(l, IsWrite)

\* the file a call names, as a full path
FullPath(c) ==
    IF Len(c.path) > 1 THEN c.path
    ELSE IF c.path = <<"6f30">> THEN PathPlmn
    ELSE IF c.path = <<"000c">> THEN PathFake
    ELSE MagicPath(c.path[1])

AllF(s) == \A i \in 1..Len(s) : s[i] = 15

Finished(op) == out.op = op /\ pc = "done"

\* C3: for every valid profile a successful FakeMagicSim.program writes exactly
\* one record to file 000c, at index 1, and that record is exactly 90 bytes:
\* status 0x81, 14 bytes name (truncated / 0xFF-padded), 10 bytes encoded ICCID
\* (padded with 'f' for an odd digit count), 9 bytes encoded IMSI, 16 bytes
\* ki, the 25-byte reserved block, 10 bytes smsp 0xFF-padded, 5 bytes 0xFF.
C3_FakeEntryIs90Bytes ==
    (fam = "FakeMagicSim" /\ Finished("program")) =>
        LET w == SelectSeq(log, LAMBDA c : c.op = "update_record")
            d == w[1].data
            n == IF Len(p.name) < 14 THEN Len(p.name) ELSE 14
        IN  /\ Len(w) = 1
            /\ FullPath(w[1]) = PathFake
            /\ w[1].recno = 1
            /\ Len(d) = 2 * 90
            /\ SubSeq(d, 1, 2) = <<8, 1>>
            /\ SubSeq(d, 3, 2 + (2 * n)) = b2h(SubSeq(p.name, 1, n))
            /\ AllF(SubSeq(d, 3 + (2 * n), 30))
            /\ SubSeq(d, 31, 50) = swap_nibbles(p.iccid \o Rep(15, 20 - Len(p.iccid)))
            /\ SubSeq(d, 51, 68) = _e_imsi(p.imsi)
            /\ SubSeq(d, 69, 100) = p.ki
            /\ AllF(SubSeq(d, 101, 124))
            /\ SubSeq(d, 125, 126) = <<15, 13>>
            /\ AllF(SubSeq(d, 127, 150))
            /\ SubSeq(d, 151, 150 + Len(p.smsp)) = p.smsp
            /\ AllF(SubSeq(d, 151 + Len(p.smsp), 180))

\* the name file of a MagicSimBase card reported `whole` whole records of
\* `rec_len` bytes to a _get_count called on its own
CountedOn(rec_len, whole) ==
    /\ fam \in MagicFamilies
    /\ out.op = "get_count"
    /\ Len(log) = 1 /\ log[1].ok
    /\ files[MagicPath("8f0c")].rec_len = rec_len
    /\ files[MagicPath("8f0c")].tlen = rec_len * whole

\* C5, as claimed: for a MagicSimBase family whose name file reports
\* total_size = 17*(n+1) and record_length = 17, n >= 1, get_count returns n.
C5_CountOnLength17 ==
    \A n \in 1..(MaxRecs + 1) :
        CountedOn(17, n + 1) => (pc = "done" /\ out.kind = "return" /\ out.val = n)

\* C5, amended: with total_size = 18*(n+1) and record_length = 18, the name
\* file's declared record length, n >= 1, get_count returns n; with
\* total_size = 17*(n+1) and record_length = 17 it raises 'Bad card type'.
C5_CountOnDeclaredLength ==
    \A n \in 1..(MaxRecs + 1) :
        /\ CountedOn(18, n + 1) => (pc = "done" /\ out.kind = "return" /\ out.val = n)
        /\ CountedOn(17, n + 1) =>
              (pc = "failed" /\ out.kind = "raise" /\ out.err = "Bad card type")

C5_Witness ==
    /\ CountedOn(18, MaxRecs + 1)
    /\ pc = "done"
    /\ out.val = MaxRecs

\* C6: get_count (MagicSimBase) and get_infos (FakeMagicSim) return a count only
\* when total_size is an exact multiple of record_length: no count is obtained
\* by truncating the remainder of total_size / record_length - 1.
C6_CountDivisionIsExact ==
    (out.op = "get_count" /\ pc = "done") =>
        files[CountPath(fam)].tlen % files[CountPath(fam)].rec_len = 0

\* C7: a successful MagicSimBase.program issues exactly five collaborator calls,
\* in this order: select 3f00/7f4d; update_record of the name file at index 2;
\* update_record of the binary-EF file at index 1 with a record right-padded
\* to exactly the declared record length; select 3f00/7f20/6f30; update_binary
\* of 6f30 with the encoded PLMN followed by 0xFF fill.  No call names 8f0e,
\* and the PLMN of the fifth call is the one embedded in the third call's
\* record, behind the 6f30 / 0x18 block header.
C7_MagicProgramCallOrder ==
    (fam \in MagicFamilies /\ Finished("program")) =>
        /\ Len(log) = 5
        /\ \A i \in 1..5 : log[i].ok /\ FullPath(log[i]) # MagicPath("8f0e")
        /\ log[1].op = "select_file" /\ log[1].path = <<"3f00", "7f4d">>
        /\ log[2].op = "update_record" /\ log[2].path = <<"8f0c">> /\ log[2].recno = 2
        /\ log[3].op = "update_record" /\ log[3].path = <<"8f0d">> /\ log[3].recno = 1
        /\ Len(log[3].data) = 2 * (IF fam = "SuperSim" THEN 74 ELSE 130)
        /\ log[4].op = "select_file" /\ log[4].path = <<"3f00", "7f20", "6f30">>
        /\ log[5].op = "update_binary" /\ log[5].path = <<"6f30">>
        /\ Len(log[5].data) >= 6
        /\ SubSeq(log[5].data, 1, 6) = _e_plmn(p.mcc, p.mnc)
        /\ AllF(SubSeq(log[5].data, 7, Len(log[5].data)))
        /\ \E i \in 1..(Len(log[3].data) - 11) :
              /\ SubSeq(log[3].data, i, i + 5) = <<6, 15, 3, 0, 1, 8>>
              /\ SubSeq(log[3].data, i + 6, i + 11) = SubSeq(log[5].data, 1, 6)
              /\ AllF(SubSeq(log[3].data, i + 12, Len(log[3].data)))

C7_Witness ==
    /\ fam = "MagicSim"
    /\ Finished("program")
    /\ Len(p.iccid) = 19
    /\ Len(log[5].data) > 6

\* the data the last successful write of the log to <<path, recno>> carried
LastWritten(path, recno) ==
    LET hits == {i \in 1..Len(log) :
                    /\ IsWrite(log[i]) /\ log[i].ok
                    /\ FullPath(log[i]) = path /\ log[i].recno = recno}
    IN  log[CHOOSE i \in hits : \A j \in hits : j <= i].data

\* C8: in program and erase of every family, a collaborator fault or a
\* 'Bad card type' stops the operation at that point: the failing call is the
\* last call issued and is issued once, a 'Bad card type' is followed by no
\* call, every write issued before the failure is on the card as written (no
\* rollback), and an erase whose count derivation fails has written nothing.
C8_FailureStopsOperation ==
    /\ \A i \in 1..Len(log) : ~log[i].ok => (i = Len(log) /\ pc = "failed")
    /\ (pc = "failed") <=> (out.kind = "raise")
    /\ (out.kind = "raise" /\ out.err = "fault") => ~log[Len(log)].ok
    /\ (out.kind = "raise" /\ out.err = "Bad card type") =>
          /\ log[Len(log)] = Call("select_file", CountPath(fam), 0, <<>>)
          /\ out.op = "erase" => (Writes(log) = <<>> /\ recs = <<>>)
    /\ \A i \in 1..Len(log) :
          (IsWrite(log[i]) /\ log[i].ok) => <<FullPath(log[i]), log[i].recno>> \in DOMAIN recs
    /\ \A key \in DOMAIN recs : recs[key] = LastWritten(key[1], key[2])

C8_Witness ==
    /\ fam = "FakeMagicSim"
    /\ out.op = "program"
    /\ pc = "failed"
    /\ out.err = "Bad card type"
    /\ <<PathPlmn, 0>> \in DOMAIN recs

\* C9: a successful MagicSimBase.erase on a card whose detected provider count
\* is N overwrites, for every slot i in 1..N, the name record at index i+1 with
\* 16 bytes 0xFF, length byte 0x00 and validity byte 0x00, and the binary-EF
\* record at index i with 0xFF over the declared binary record length; it
\* writes no name record at index 1 or above N+1 and no binary-EF record
\* above N.
C9_MagicEraseSlots ==
    (fam \in MagicFamilies /\ Finished("erase")) =>
        LET N    == (files[MagicPath("8f0c")].tlen \div files[MagicPath("8f0c")].rec_len) - 1
            blen == IF fam = "SuperSim" THEN 74 ELSE 130
        IN  /\ N >= 1
            /\ \A i \in 1..N :
                  /\ <<MagicPath("8f0c"), i + 1>> \in DOMAIN recs
                  /\ recs[<<MagicPath("8f0c"), i + 1>>] = Rep(15, 32) \o <<0, 0>> \o <<0, 0>>
                  /\ <<MagicPath("8f0d"), i>> \in DOMAIN recs
                  /\ recs[<<MagicPath("8f0d"), i>>] = Rep(15, 2 * blen)
            /\ \A j \in 1..Len(log) :
                  /\ FullPath(log[j]) = MagicPath("8f0c") /\ IsWrite(log[j])
                        => log[j].recno \in 2..(N + 1)
                  /\ FullPath(log[j]) = MagicPath("8f0d") => log[j].recno \in 1..N

C9_Witness ==
    /\ fam = "SuperSim"
    /\ Finished("erase")
    /\ loc.cnt = MaxRecs
    /\ <<MagicPath("8f0c"), MaxRecs + 1>> \in DOMAIN recs

\* C10: a successful MagicSimBase.erase also overwrites, for every slot n in
\* 0..count-1, record n+1 of the auxiliary file 8f0e with 0xFF over that file's
\* declared length (50 for SuperSim, 102 for MagicSim, whose 8f0e is not
\* 'length must match'), and writes no other record of it; count is the one
\* derived from the name file.
C10_MagicEraseAuxFile ==
    (fam \in MagicFamilies /\ Finished("erase")) =>
        LET count == (files[MagicPath("8f0c")].tlen \div files[MagicPath("8f0c")].rec_len) - 1
            rlen  == IF fam = "SuperSim" THEN 50 ELSE 102
        IN  /\ \A n \in 0..(count - 1) :
                  /\ <<MagicPath("8f0e"), n + 1>> \in DOMAIN recs
                  /\ recs[<<MagicPath("8f0e"), n + 1>>] = Rep(15, 2 * rlen)
            /\ \A j \in 1..Len(log) :
                  FullPath(log[j]) = MagicPath("8f0e") =>
                      /\ log[j].op = "update_record"
                      /\ log[j].recno \in 1..count
            /\ Len(Writes(log)) = 3 * count

C10_Witness ==
    /\ fam = "MagicSim"
    /\ Finished("erase")
    /\ loc.cnt = 1
    /\ files[MagicPath("8f0e")].tlen > files[MagicPath("8f0e")].rec_len * 2
    /\ <<MagicPath("8f0e"), 1>> \in DOMAIN recs

\* ------------------------------------------------------------------------
\* Properties of autodetection (specification SpecDetect)

\* the files a family's autodetect probes, each with the length it requires
Checked(kls) ==
    IF kls = "FakeMagicSim" THEN {[path |-> PathFake, len |-> 90]}
    ELSE IF kls = "SuperSim"
    THEN {[path |-> MagicPath("8f0c"), len |-> 18], [path |-> MagicPath("8f0d"), len |-> 74],
          [path |-> MagicPath("8f0e"), len |-> 50]}
    ELSE {[path |-> MagicPath("8f0c"), len |-> 18], [path |-> MagicPath("8f0d"), len |-> 130]}

\* the card gives the record length len for the file at path
Exposes(path, len) ==
    files[path].kind = "EF_record" /\ files[path].rec_len = len

\* every file the family probes has the length the family requires
CheckedMatch(kls) ==
    \A c \in Checked(kls) : Exposes(c.path, c.len)

\* C1: autodetect of every family never surfaces an error: when a probe faults
\* or returns another length than the declared one it returns None, and it
\* returns an instance only when every 'length must match' file was probed and
\* returned exactly its declared length.  The registry sweep is never aborted:
\* it ends matched on the first family of the registry whose probes all match,
\* or unsupported after every family was tried.
C1_AutodetectSwallowsFaults ==
    /\ last.result \in {"none", "instance"}
    /\ last.fam # "none" =>
          /\ \A i \in 1..Len(last.probes) :
                LET pr == last.probes[i]
                IN  (pr.raised \/ \E c \in Checked(last.fam) : c.path = pr.path /\ c.len # pr.val)
                        => last.result = "none"
          /\ last.result = "instance" =>
                \A c \in Checked(last.fam) : \E i \in 1..Len(last.probes) :
                    /\ last.probes[i].path = c.path
                    /\ ~last.probes[i].raised
                    /\ last.probes[i].val = c.len
          /\ \A i \in 1..Len(last.probes) :
                \E c \in Checked(last.fam) : c.path = last.probes[i].path
    /\ sweep.status \in {"running", "matched", "unsupported"}
    /\ sweep.status = "matched" =>
          /\ sweep.selected = _cards_classes[sweep.idx]
          /\ CheckedMatch(sweep.selected)
          /\ \A j \in 1..(sweep.idx - 1) : ~CheckedMatch(_cards_classes[j])
    /\ sweep.status = "unsupported" => \A kls \in Families : ~CheckedMatch(kls)

\* the sweep got past a family whose probe faulted and matched a later one
C1_Witness ==
    /\ sweep.status = "matched"
    /\ sweep.selected = "MagicSim"
    /\ files[PathFake].kind = "unreachable"
    /\ files[MagicPath("8f0e")].kind = "absent"
    /\ last.fam = "SuperSim"
    /\ last.result = "none"
    /\ \E i \in 1..Len(last.probes) : last.probes[i].raised

\* the card exposes exactly SuperSim's three declared record lengths
ExposesExactlySuperSim ==
    /\ Exposes(MagicPath("8f0c"), 18)
    /\ Exposes(MagicPath("8f0d"), 74)
    /\ Exposes(MagicPath("8f0e"), 50)
    /\ files[PathFake].kind # "EF_record"

\* the card exposes the whole declared geometry of a family
ExposesGeometry(kls) ==
    IF kls = "FakeMagicSim" THEN Exposes(PathFake, 90)
    ELSE IF kls = "SuperSim"
    THEN Exposes(MagicPath("8f0c"), 18) /\ Exposes(MagicPath("8f0d"), 74)
         /\ Exposes(MagicPath("8f0e"), 50)
    ELSE Exposes(MagicPath("8f0c"), 18) /\ Exposes(MagicPath("8f0d"), 130)
         /\ Exposes(MagicPath("8f0e"), 102)

\* on a card exposing exactly SuperSim's lengths the sweep ends on SuperSim
\* and no autodetect of another family matches
SuperSimCardDetected ==
    ExposesExactlySuperSim =>
        /\ sweep.status # "running" =>
              (sweep.status = "matched" /\ sweep.selected = "SuperSim")
        /\ last.fam \in {"FakeMagicSim", "MagicSim"} => last.result = "none"

\* C2, as claimed: the registry's families run in the order [FakeMagicSim,
\* SuperSim, MagicSim] against a card exposing exactly SuperSim's three
\* declared record lengths yield a SuperSim instance and neither FakeMagicSim
\* nor MagicSim matches; against a card exposing none of the known geometries
\* no family's autodetect matches.
C2_NoKnownGeometryNoMatch ==
    /\ SuperSimCardDetected
    /\ (\A kls \in Families : ~ExposesGeometry(kls)) =>
          (last.result # "instance" /\ sweep.status # "matched")

\* C2, amended: as claimed for the card exposing exactly SuperSim's lengths;
\* no family's autodetect matches a card on which every family has a 'length
\* must match' file that is absent or of another length (MagicSim's 8f0e is not
\* 'length must match': a card with 8f0c = 18 and 8f0d = 130 matches MagicSim
\* whatever its 8f0e is).
C2_NoCheckedGeometryNoMatch ==
    /\ SuperSimCardDetected
    /\ (\A kls \in Families : ~CheckedMatch(kls)) =>
          (last.result # "instance" /\ sweep.status # "matched")

C2_Witness ==
    /\ ExposesExactlySuperSim
    /\ sweep.status = "matched"
    /\ sweep.selected = "SuperSim"
    /\ last.fam = "MagicSim"
    /\ Len(last.probes) = 2

====
